---- MODULE Spec2Model ----
(***************************************************************************)
(* Deferred grading of the scenario server: the submit handler, the        *)
(* background job process_deferred_grading, the status and result          *)
(* handlers, and the two storage backends (InMemGradingStorage and         *)
(* PostGresGradingStorage) they run against.                               *)
(***************************************************************************)
EXTENDS Integers, Sequences, FiniteSets, TLC

\* Number of grading ids uuid4 hands out in one run.
MaxJobs == 2
\* Longest list of ids one prune call is given.
MaxBatch == 1

HTTP_200_OK == 200
HTTP_201_CREATED == 201
HTTP_202_ACCEPTED == 202
HTTP_404_NOT_FOUND == 404
HTTP_500_INTERNAL_SERVER_ERROR == 500

Ids == 1..MaxJobs

\* DeferredGradingStatus
COMPLETED == "completed"
FAILED == "failed"
PROCESSING == "processing"
DeferredGradingStatus == {COMPLETED, FAILED, PROCESSING}

\* The two storage classes app.startup chooses between.
Backends == {"InMem", "Postgres"}

\* Python values of the result field: None, or a list of scores.
PyNone == [isNone |-> TRUE, items |-> <<>>]
PyList(s) == [isNone |-> FALSE, items |-> s]
\* Python None in the error field (a TEXT column holding NULL).
ErrNone == "<None>"

\* SubmissionScore values: scenario_id, correct, details (name/value entries).
Score1 == [scenario_id |-> "s1", correct |-> TRUE, details |-> <<>>]
Score2 ==
    [scenario_id |-> "s2", correct |-> FALSE,
     details |-> <<[name |-> "reason", value |-> "mismatch"]>>]

\* The lists a grading function returns: empty, one score, and the same two
\* scores in either order.
GraderResults ==
    { PyList(<<>>), PyList(<<Score1>>), PyList(<<Score1, Score2>>),
      PyList(<<Score2, Score1>>) }
\* str(e) of the exceptions a grading function can raise: ValueError("bad input"),
\* and an exception raised without arguments, whose str() is empty.
GraderMessages == {"bad input", ""}
\* str(e) of the exception a failing database write raises.
StorageMessage == "connection lost"

\* Registered scenario handlers: one with a grade_responses coroutine, one whose
\* lookup of grade_responses raises.
GoodSet == "aob"
BrokenSet == "no-grader"
RegisteredSets == {GoodSet, BrokenSet}
HandlerMessage == "'Handler' object has no attribute 'grade_responses'"

----------------------------------------------------------------------------
\* DeferredGradingResult
DeferredGradingResult(result, status, error) ==
    [result |-> result, status |-> status, error |-> error]

\* dataclasses.asdict(score), json-encoded
AsDict(score) ==
    [json |-> "object", scenario_id |-> score.scenario_id,
     correct |-> score.correct, details |-> score.details]

\* SubmissionScore(**obj)
FromDict(obj) ==
    [scenario_id |-> obj.scenario_id, correct |-> obj.correct,
     details |-> obj.details]

JsonNull == [json |-> "null", items |-> <<>>]
JsonArray(s) == [json |-> "array", items |-> s]

\* PostGresGradingStorage._result_pack: a falsy result (None or []) is written
\* as {"result": null}, any other list as {"result": [asdict(score), ...]}.
result_pack(result) ==
    IF ~result.isNone /\ Len(result.items) > 0
    THEN [result |-> JsonArray([i \in 1..Len(result.items) |-> AsDict(result.items[i])])]
    ELSE [result |-> JsonNull]

\* PostGresGradingStorage._result_unpack: iterates result_obj["result"]; on
\* null the iteration raises TypeError.
result_unpack(result_str) ==
    IF result_str.result.json = "null"
    THEN [raised |-> "TypeError", value |-> PyNone]
    ELSE [raised |-> "",
          value |-> PyList([i \in 1..Len(result_str.result.items) |->
                               FromDict(result_str.result.items[i])])]

----------------------------------------------------------------------------
VARIABLES
    backend,    \* app.state.storage: which storage class startup installed
    storage,    \* InMemGradingStorage.storage / the deferred_grading table
    pc,         \* per grading id: where its submit handler or its job stands
    handler,    \* per grading id: the scenario set the submission named
    graded,     \* per grading id: the list grade_responses returned to the job
    caught,     \* per grading id: str(e) of the exception the job caught
    response,   \* per grading id: what the submit call answered
    invoked,    \* per grading id: calls of the grading function
    writes,     \* per grading id: the store calls made for it, in order
    rq,         \* the result handler between its state() and fetch() reads
    reply,      \* what the step just taken answered, if it was a status or result query
    pruned,     \* the grading ids a prune call has removed so far
    pool,       \* PostGresGradingStorage.pool: "none" until _connect opens it
    boot,       \* app.startup: where it stands and what it found
    call,       \* a direct call of a storage method and what it returned
    tracking    \* per grading id: the fields of the request body, of the data
                \* handed to grade_responses, and what mlflow_logging did

vars == <<backend, storage, pc, handler, graded, caught, response, invoked,
          writes, rq, reply, pruned, pool, boot, call, tracking>>

\* self.storage[grading_id] = data (InMem); the row the upsert writes (Postgres)
StoredForm(b, data) ==
    IF b = "InMem" THEN data
    ELSE [result |-> result_pack(data.result), status |-> data.status,
          error |-> data.error]

\* Variant of Put: the write replaces the whole table.
PutAlone(st, id, v) == [k \in {id} |-> v]
Put(st, id, v) == [k \in (DOMAIN st) \cup {id} |-> IF k = id THEN v ELSE st[k]]

\* Variant of StoreEffect: a store that raises has written the record all the same.
StoreEffectLandsOnRaise(st, b, id, data, ok) == Put(st, id, StoredForm(b, data))

\* DeferredGradingStorage.store: on success the record is created or replaced;
\* a store that raises leaves the table as it was.
StoreEffect(st, b, id, data, ok) ==
    IF ok THEN Put(st, id, StoredForm(b, data)) ELSE st

\* Whether a store call can raise: a dict assignment does not, a database
\* round trip can.
StoreOutcomes(b) == IF b = "InMem" THEN {TRUE} ELSE {TRUE, FALSE}

NoRecord == DeferredGradingResult(PyNone, PROCESSING, ErrNone)

\* Variant of InitialRecord: the record is created with a terminal status.
InitialRecordCompleted == DeferredGradingResult(PyNone, COMPLETED, ErrNone)
\* The record a submit writes before anything is scheduled.
InitialRecord == DeferredGradingResult(PyNone, PROCESSING, ErrNone)

\* DeferredGradingStorage.fetch
fetch(st, b, id) ==
    IF id \notin DOMAIN st
    THEN [raised |-> "KeyError", value |-> NoRecord]
    ELSE IF b = "InMem"
    THEN [raised |-> "", value |-> st[id]]
    ELSE LET sc == result_unpack(st[id].result)
         IN  IF sc.raised # ""
             THEN [raised |-> sc.raised, value |-> NoRecord]
             ELSE [raised |-> "",
                   value |-> DeferredGradingResult(sc.value, st[id].status,
                                                   st[id].error)]

\* Variant of state: an id without a record is reported as PROCESSING.
stateNoKeyError(st, b, id) ==
    [raised |-> "",
     status |-> IF id \in DOMAIN st THEN st[id].status ELSE PROCESSING]
\* DeferredGradingStorage.state
state(st, b, id) ==
    IF id \notin DOMAIN st
    THEN [raised |-> "KeyError", status |-> PROCESSING]
    ELSE [raised |-> "", status |-> st[id].status]

\* The argument of prune: one id (a str) or a list of ids.
PruneArgs ==
    { [isStr |-> TRUE, ids |-> <<id>>] : id \in Ids }
    \cup { [isStr |-> FALSE, ids |-> ids] :
             ids \in UNION { [1..k -> Ids] : k \in 0..MaxBatch } }

Remove(st, id) == [k \in (DOMAIN st) \ {id} |-> st[k]]

\* InMemGradingStorage.prune: the loop over grading_ids, counting and deleting
\* each id found in the dict.
RECURSIVE InMemPruneLoop(_, _, _)
InMemPruneLoop(st, ids, count) ==
    IF ids = <<>> THEN [storage |-> st, count |-> count]
    ELSE IF Head(ids) \in DOMAIN st
    THEN InMemPruneLoop(Remove(st, Head(ids)), Tail(ids), count + 1)
    ELSE InMemPruneLoop(st, Tail(ids), count)

\* Variant of PostGresPrune: the count is the number of ids supplied.
PostGresPruneCountsSupplied(st, ids) ==
    LET hit == { ids[i] : i \in 1..Len(ids) } \cap DOMAIN st
    IN  [storage |-> [k \in (DOMAIN st) \ hit |-> st[k]], count |-> Len(ids)]
\* PostGresGradingStorage.prune: 0 for an empty list, else DELETE ... WHERE
\* grading_id = ANY($1) and the number of rows the command reports.
PostGresPrune(st, ids) ==
    LET hit == { ids[i] : i \in 1..Len(ids) } \cap DOMAIN st
    IN  IF ids = <<>> THEN [storage |-> st, count |-> 0]
        ELSE [storage |-> [k \in (DOMAIN st) \ hit |-> st[k]],
              count |-> Cardinality(hit)]

\* DeferredGradingStorage.prune
prune(st, b, arg) ==
    IF b = "InMem" THEN InMemPruneLoop(st, arg.ids, 0) ELSE PostGresPrune(st, arg.ids)

----------------------------------------------------------------------------
\* Answers of the HTTP handlers.
NoResponse == [code |-> 0, status |-> "", detail |-> ""]
Accepted == [code |-> HTTP_201_CREATED, status |-> PROCESSING, detail |-> ""]
HttpError(code, detail) == [code |-> code, status |-> "", detail |-> detail]

NoReply ==
    [op |-> "none", id |-> 0, code |-> 0, status |-> "",
     detail |-> <<>>, result |-> PyNone]
Reply(op, id, code, status, detail, result) ==
    [op |-> op, id |-> id, code |-> code, status |-> status,
     detail |-> detail, result |-> result]

Idle == [pc |-> "idle", id |-> 0, status |-> ""]

WriteCall(status, by, ok) == [status |-> status, by |-> by, ok |-> ok]

\* The connection parameters startup reads from the environment.
EnvParams ==
    {"POSTGRES_USERNAME", "POSTGRES_PASSWORD", "POSTGRES_DATABASE",
     "POSTGRES_HOST", "POSTGRES_PORT"}

\* startup before it has run, with the parameters the environment holds.
BootStart(env) ==
    [pc |-> "env", env |-> env, envOk |-> FALSE, poolOk |-> FALSE,
     tableOk |-> FALSE, raised |-> FALSE]
\* startup after it has returned: what it found on its way.
BootDone(envOk, poolOk, tableOk) ==
    [pc |-> "done", env |-> {}, envOk |-> envOk, poolOk |-> poolOk,
     tableOk |-> tableOk, raised |-> FALSE]

\* The pool of the installed storage: connect() has opened it when the
\* database storage is installed; the in-memory storage has none.
OpenedAtStartup(b) == IF b = "Postgres" THEN "open" ELSE "none"

\* if not self.pool: await self._connect()
LazyConnect(b, p) == IF b = "Postgres" /\ p = "none" THEN "open" ELSE p

\* The JSON body the client posts: tracking_context only when it has one.
ClientBody(tc) ==
    {"scenario_set_id", "submission"}
        \cup (IF tc THEN {"tracking_context"} ELSE {})

\* The fields the Submission model declares.
SubmissionFields == {"submission"}

\* data.model_dump(): the declared fields of the parsed body.
model_dump(body) == body \cap SubmissionFields

\* A request without tracking context, nothing handed to grade_responses yet.
NoTracking == [body |-> ClientBody(FALSE), data |-> {}, sink |-> "idle"]

\* No direct storage call is in progress.
NoCall ==
    [op |-> "none", id |-> 0, ids |-> <<>>, data |-> NoRecord, raised |-> "",
     value |-> NoRecord, status |-> "", exists |-> FALSE, count |-> 0]

\* The server after startup: a storage is installed (the database one after
\* a successful connect, else the in-memory one) and nothing has been submitted.
Init ==
    /\ backend \in Backends
    /\ storage = <<>>
    /\ pc = [id \in Ids |-> "unused"]
    /\ handler = [id \in Ids |-> ""]
    /\ graded = [id \in Ids |-> PyNone]
    /\ caught = [id \in Ids |-> ErrNone]
    /\ response = [id \in Ids |-> NoResponse]
    /\ invoked = [id \in Ids |-> 0]
    /\ writes = [id \in Ids |-> <<>>]
    /\ rq = Idle
    /\ reply = NoReply
    /\ pruned = {}
    /\ pool = OpenedAtStartup(backend)
    /\ boot = BootDone(backend = "Postgres", backend = "Postgres", backend = "Postgres")
    /\ call = NoCall
    /\ tracking = [id \in Ids |-> NoTracking]

----------------------------------------------------------------------------
\* The submit handler, endpoints.deferred_grading.

\* Variant of FreshIds: the generated id may be one issued before.
AnyIds == Ids
\* uuid.uuid4(): an id no earlier submission was given (ids are handed out in
\* increasing order).
FreshIds == { id \in Ids : pc[id] = "unused" /\ \A k \in 1..(id - 1) : pc[k] # "unused" }

\* The first try block: the PROCESSING record is written.
SubmitStore(id, ss) ==
    /\ boot.pc = "done"
    /\ id \in FreshIds
    /\ ss \in RegisteredSets
    /\ storage' = StoreEffect(storage, backend, id, InitialRecord, TRUE)
    /\ writes' = [writes EXCEPT ![id] = Append(@, WriteCall(InitialRecord.status, "submit", TRUE))]
    /\ handler' = [handler EXCEPT ![id] = ss]
    /\ pc' = [pc EXCEPT ![id] = "stored"]
    /\ reply' = NoReply
    /\ UNCHANGED <<backend, pool, boot, call, graded,
                   caught, response, invoked, rq, pruned, tracking>>

\* Variant of AfterInitialWriteRaises: the exception is logged and the handler
\* goes on to schedule the job.
AfterInitialWriteRaisesContinues(id) ==
    /\ pc' = [pc EXCEPT ![id] = "stored"]
    /\ response' = response

\* What the handler does when the first store raises.
AfterInitialWriteRaises(id) ==
    /\ pc' = [pc EXCEPT ![id] = "rejected"]
    /\ response' = [response EXCEPT ![id] =
           HttpError(HTTP_500_INTERNAL_SERVER_ERROR, "deferred storage failed")]

\* The first try block when storage.store raises: HTTP 500, nothing else.
SubmitStoreRaises(id, ss) ==
    /\ boot.pc = "done"
    /\ id \in FreshIds
    /\ ss \in RegisteredSets
    /\ FALSE \in StoreOutcomes(backend)
    /\ storage' = StoreEffect(storage, backend, id, InitialRecord, FALSE)
    /\ writes' = [writes EXCEPT ![id] = Append(@, WriteCall(InitialRecord.status, "submit", FALSE))]
    /\ handler' = [handler EXCEPT ![id] = ss]
    /\ AfterInitialWriteRaises(id)
    /\ reply' = NoReply
    /\ UNCHANGED <<backend, pool, boot, call, graded,
                   caught, invoked, rq, pruned, tracking>>

\* The second try block: the BackgroundTask is built and handed to the
\* Response, which carries the id with status PROCESSING.
SubmitSchedule(id) ==
    /\ pc[id] = "stored"
    /\ handler[id] = GoodSet
    /\ pc' = [pc EXCEPT ![id] = "scheduled"]
    /\ response' = [response EXCEPT ![id] = Accepted]
    /\ reply' = NoReply
    /\ tracking' = [tracking EXCEPT ![id].data = model_dump(tracking[id].body)]
    /\ UNCHANGED <<backend, pool, boot, call, storage, handler,
                   graded, caught, invoked, writes, rq, pruned>>

\* Variant of SubmitScheduleRaises: the handler answers HTTP 500 and leaves
\* the record as it is.
SubmitScheduleRaisesNoRewrite(id, ok) ==
    /\ pc[id] = "stored"
    /\ handler[id] = BrokenSet
    /\ ok \in StoreOutcomes(backend)
    /\ pc' = [pc EXCEPT ![id] = "sched_failed"]
    /\ response' = [response EXCEPT ![id] =
           HttpError(HTTP_500_INTERNAL_SERVER_ERROR, "grading failed")]
    /\ reply' = NoReply
    /\ UNCHANGED <<backend, pool, boot, call, storage, handler, graded,
                   caught, invoked, writes, rq, pruned, tracking>>
\* The second try block raising: the handler stores FAILED (result None,
\* error f"{e}") and answers HTTP 500; a raise of that store also ends in 500.
SubmitScheduleRaises(id, ok) ==
    /\ pc[id] = "stored"
    /\ handler[id] = BrokenSet
    /\ ok \in StoreOutcomes(backend)
    /\ storage' = StoreEffect(storage, backend, id,
                      DeferredGradingResult(PyNone, FAILED, HandlerMessage), ok)
    /\ writes' = [writes EXCEPT ![id] = Append(@, WriteCall(FAILED, "submit", ok))]
    /\ pc' = [pc EXCEPT ![id] = "sched_failed"]
    /\ response' = [response EXCEPT ![id] =
           HttpError(HTTP_500_INTERNAL_SERVER_ERROR, "grading failed")]
    /\ reply' = NoReply
    /\ UNCHANGED <<backend, pool, boot, call, handler,
                   graded, caught, invoked, rq, pruned, tracking>>

----------------------------------------------------------------------------
\* The background job, process_deferred_grading.

\* Variant of JobStart: a single worker runs the jobs one at a time.
JobStartSerial(id) ==
    /\ pc[id] = "scheduled"
    /\ \A other \in Ids :
           pc[other] \notin {"grading", "store_completed", "store_failed"}
    /\ pc' = [pc EXCEPT ![id] = "grading"]
    /\ invoked' = [invoked EXCEPT ![id] = @ + 1]
    /\ reply' = NoReply
    /\ UNCHANGED <<backend, pool, boot, call, storage, handler,
                   graded, caught, response, writes, rq, pruned, tracking>>
\* The task starts after the response is sent and awaits grade_responses.
JobStart(id) ==
    /\ pc[id] = "scheduled"
    /\ pc' = [pc EXCEPT ![id] = "grading"]
    /\ invoked' = [invoked EXCEPT ![id] = @ + 1]
    /\ reply' = NoReply
    /\ UNCHANGED <<backend, pool, boot, call, storage, handler,
                   graded, caught, response, writes, rq, pruned, tracking>>

\* grade_responses returns a list.
GraderReturns(id, r) ==
    /\ pc[id] = "grading"
    /\ r \in GraderResults
    /\ graded' = [graded EXCEPT ![id] = r]
    /\ pc' = [pc EXCEPT ![id] = IF "tracking_context" \in tracking[id].data
                                THEN "logging" ELSE "store_completed"]
    /\ reply' = NoReply
    /\ UNCHANGED <<backend, pool, boot, call, storage, handler,
                   caught, response, invoked, writes, rq, pruned, tracking>>

\* grade_responses raises; the except clause takes str(e).
GraderRaises(id, m) ==
    /\ pc[id] = "grading"
    /\ m \in GraderMessages
    /\ caught' = [caught EXCEPT ![id] = m]
    /\ pc' = [pc EXCEPT ![id] = "store_failed"]
    /\ reply' = NoReply
    /\ UNCHANGED <<backend, pool, boot, call, storage, handler,
                   graded, response, invoked, writes, rq, pruned, tracking>>

\* Where the job goes when the COMPLETED store raises: the store is inside the
\* try block, so the except clause catches the storage exception.
\* Variant of AfterCompletedWriteRaises: the storage exception ends the job,
\* no FAILED store follows.
AfterCompletedWriteRaisesDropped(id) ==
    /\ pc' = [pc EXCEPT ![id] = "crashed"]
    /\ caught' = caught
    /\ graded' = graded

\* The except clause does not use the computed result.
AfterCompletedWriteRaises(id) ==
    /\ pc' = [pc EXCEPT ![id] = "store_failed"]
    /\ caught' = [caught EXCEPT ![id] = StorageMessage]
    /\ graded' = [graded EXCEPT ![id] = PyNone]

\* Variant of JobStoreCompleted: the job returns without storing its result.
JobStoreCompletedSkipped(id) ==
    /\ pc[id] = "store_completed"
    /\ pc' = [pc EXCEPT ![id] = "done"]
    /\ reply' = NoReply
    /\ UNCHANGED <<backend, pool, boot, call, storage, handler, graded,
                   caught, response, invoked, writes, rq, pruned, tracking>>
\* storage.store(COMPLETED, result) inside the try block.
JobStoreCompleted(id) ==
    /\ pc[id] = "store_completed"
    /\ storage' = StoreEffect(storage, backend, id,
                      DeferredGradingResult(graded[id], COMPLETED, ErrNone), TRUE)
    /\ writes' = [writes EXCEPT ![id] = Append(@, WriteCall(COMPLETED, "job", TRUE))]
    /\ pc' = [pc EXCEPT ![id] = "done"]
    /\ reply' = NoReply
    /\ UNCHANGED <<backend, pool, boot, call, handler, graded,
                   caught, response, invoked, rq, pruned, tracking>>

JobStoreCompletedRaises(id) ==
    /\ pc[id] = "store_completed"
    /\ FALSE \in StoreOutcomes(backend)
    /\ storage' = StoreEffect(storage, backend, id,
                      DeferredGradingResult(graded[id], COMPLETED, ErrNone), FALSE)
    /\ writes' = [writes EXCEPT ![id] = Append(@, WriteCall(COMPLETED, "job", FALSE))]
    /\ AfterCompletedWriteRaises(id)
    /\ reply' = NoReply
    /\ UNCHANGED <<backend, pool, boot, call, handler,
                   response, invoked, rq, pruned, tracking>>

\* Variant of JobStoreFailed: the FAILED record is written without the
\* exception's description.
JobStoreFailedNoError(id) ==
    /\ pc[id] = "store_failed"
    /\ storage' = StoreEffect(storage, backend, id,
                      DeferredGradingResult(PyList(<<>>), FAILED, ErrNone), TRUE)
    /\ writes' = [writes EXCEPT ![id] = Append(@, WriteCall(FAILED, "job", TRUE))]
    /\ pc' = [pc EXCEPT ![id] = "done"]
    /\ reply' = NoReply
    /\ UNCHANGED <<backend, pool, boot, call, handler, graded,
                   caught, response, invoked, rq, pruned, tracking>>
\* storage.store(FAILED, [], str(e)) in the except clause.
JobStoreFailed(id) ==
    /\ pc[id] = "store_failed"
    /\ storage' = StoreEffect(storage, backend, id,
                      DeferredGradingResult(PyList(<<>>), FAILED, caught[id]), TRUE)
    /\ writes' = [writes EXCEPT ![id] = Append(@, WriteCall(FAILED, "job", TRUE))]
    /\ pc' = [pc EXCEPT ![id] = "done"]
    /\ reply' = NoReply
    /\ UNCHANGED <<backend, pool, boot, call, handler, graded,
                   caught, response, invoked, rq, pruned, tracking>>

\* Variant of JobStoreFailedRaises: the FAILED store is tried again after a raise.
JobStoreFailedRetried(id) ==
    /\ pc[id] = "store_failed"
    /\ FALSE \in StoreOutcomes(backend)
    /\ writes' = [writes EXCEPT ![id] = Append(@, WriteCall(FAILED, "job", FALSE))]
    /\ reply' = NoReply
    /\ UNCHANGED <<backend, pool, boot, call, storage, pc, handler,
                   graded, caught, response, invoked, rq, pruned, tracking>>

\* The store of the except clause raising: the exception leaves the task.
JobStoreFailedRaises(id) ==
    /\ pc[id] = "store_failed"
    /\ FALSE \in StoreOutcomes(backend)
    /\ storage' = StoreEffect(storage, backend, id,
                      DeferredGradingResult(PyList(<<>>), FAILED, caught[id]), FALSE)
    /\ writes' = [writes EXCEPT ![id] = Append(@, WriteCall(FAILED, "job", FALSE))]
    /\ pc' = [pc EXCEPT ![id] = "crashed"]
    /\ reply' = NoReply
    /\ UNCHANGED <<backend, pool, boot, call, handler, graded,
                   caught, response, invoked, rq, pruned, tracking>>

----------------------------------------------------------------------------
\* The read handlers, endpoints.deferred_grading_status and
\* endpoints.deferred_grading_result.

NotFound(op, id) ==
    Reply(op, id, HTTP_404_NOT_FOUND, "",
          <<"grading id not found: ", ToString(id)>>, PyNone)

\* deferred_grading_status: storage.state, KeyError mapped to 404.
StatusAnswer(st, b, id) ==
    LET gs == state(st, b, id)
    IN  IF gs.raised = "KeyError" THEN NotFound("status", id)
        ELSE Reply("status", id, HTTP_200_OK, gs.status, <<>>, PyNone)

\* Variant of ResultAnswerOnState: no branch on PROCESSING before the fetch.
ResultAnswerOnStateNoBranch(gs, id) ==
    IF gs.raised = "KeyError" THEN NotFound("result", id) ELSE NoReply

\* deferred_grading_result up to the branch on grading_state.status: the
\* answer it gives without fetching, if any.
ResultAnswerOnState(gs, id) ==
    IF gs.raised = "KeyError" THEN NotFound("result", id)
    ELSE IF gs.status = PROCESSING
    THEN Reply("result", id, HTTP_202_ACCEPTED, "",
               <<"grading still progressing">>, PyNone)
    ELSE NoReply

\* Variant of ResultAnswerOnFetch: a KeyError of fetch is answered like any
\* other exception.
ResultAnswerOnFetchNoKeyError(f, status, id) ==
    IF f.raised # ""
    THEN Reply("result", id, HTTP_500_INTERNAL_SERVER_ERROR, "",
               <<"failed to fetch result grading_id=", ToString(id)>>, PyNone)
    ELSE IF status = FAILED
    THEN Reply("result", id, HTTP_500_INTERNAL_SERVER_ERROR, "",
               <<"grading failed: ", f.value.error>>, PyNone)
    ELSE Reply("result", id, HTTP_200_OK, "", <<>>, f.value.result)
\* deferred_grading_result after storage.fetch, for the status it read before.
ResultAnswerOnFetch(f, status, id) ==
    IF f.raised = "KeyError" THEN NotFound("result", id)
    ELSE IF f.raised # ""
    THEN Reply("result", id, HTTP_500_INTERNAL_SERVER_ERROR, "",
               <<"failed to fetch result grading_id=", ToString(id)>>, PyNone)
    ELSE IF status = FAILED
    THEN Reply("result", id, HTTP_500_INTERNAL_SERVER_ERROR, "",
               <<"grading failed: ", f.value.error>>, PyNone)
    ELSE Reply("result", id, HTTP_200_OK, "", <<>>, f.value.result)

\* The whole result handler run against one storage snapshot.
ResultAnswer(st, b, id) ==
    LET gs == state(st, b, id)
        early == ResultAnswerOnState(gs, id)
    IN  IF early # NoReply THEN early
        ELSE ResultAnswerOnFetch(fetch(st, b, id), gs.status, id)

StatusQuery(id) ==
    /\ call.op = "none"
    /\ reply' = StatusAnswer(storage, backend, id)
    /\ pool' = LazyConnect(backend, pool)
    /\ UNCHANGED <<backend, boot, call, storage, pc, handler,
                   graded, caught, response, invoked, writes, rq,
                   pruned, tracking>>

\* The result handler's first read, storage.state (one result query is in
\* flight at a time).
ResultQueryState(id) ==
    /\ rq.pc = "idle"
    /\ call.op = "none"
    /\ LET gs == state(storage, backend, id)
           early == ResultAnswerOnState(gs, id)
       IN  IF early # NoReply
           THEN reply' = early /\ rq' = rq
           ELSE reply' = NoReply /\ rq' = [pc |-> "fetch", id |-> id, status |-> gs.status]
    /\ pool' = LazyConnect(backend, pool)
    /\ UNCHANGED <<backend, boot, call, storage, pc, handler,
                   graded, caught, response, invoked, writes, pruned,
                   tracking>>

\* The result handler's second read, storage.fetch.
ResultQueryFetch ==
    /\ call.op = "none"
    /\ rq.pc = "fetch"
    /\ reply' = ResultAnswerOnFetch(fetch(storage, backend, rq.id), rq.status, rq.id)
    /\ rq' = Idle
    /\ pool' = LazyConnect(backend, pool)
    /\ UNCHANGED <<backend, boot, call, storage, pc, handler,
                   graded, caught, response, invoked, writes, pruned,
                   tracking>>

\* A caller of storage.prune (no route handler calls it); the count it gets
\* back is prune(...).count.
Prune(arg) ==
    /\ LET p == prune(storage, backend, arg)
       IN  /\ storage' = p.storage
           /\ pruned' = pruned \cup ((DOMAIN storage) \ (DOMAIN p.storage))
    /\ reply' = NoReply
    /\ UNCHANGED <<backend, pool, boot, call, pc, handler,
                   graded, caught, response, invoked, writes, rq, tracking>>

----------------------------------------------------------------------------
-----------------------------------------------------------------------------
\* Direct calls of the storage methods, by any holder of the storage object.

\* The records callers hand to store.
StoredData ==
    { InitialRecord,
      DeferredGradingResult(PyList(<<Score1, Score2>>), COMPLETED, ErrNone),
      DeferredGradingResult(PyList(<<>>), FAILED, "bad input") }

\* self.pool.acquire() on a pool that is still None.
NoPool(b, p) == b = "Postgres" /\ p = "none"

\* DeferredGradingStorage.valid
valid(st, b, p, id) ==
    IF NoPool(b, p)
    THEN [raised |-> "AttributeError", exists |-> FALSE]
    ELSE [raised |-> "", exists |-> id \in DOMAIN st]

\* DeferredGradingStorage.prune on the storage object: the database variant
\* returns 0 for an empty batch before it touches the pool.
pruneCall(st, b, p, arg) ==
    IF NoPool(b, p) /\ arg.ids # <<>>
    THEN [raised |-> "AttributeError", storage |-> st, count |-> 0]
    ELSE LET out == prune(st, b, arg)
         IN  [raised |-> "", storage |-> out.storage, count |-> out.count]

Called(op, id) == [NoCall EXCEPT !.op = op, !.id = id]

\* await storage.store(grading_id, data)
StoreCall(id, data, ok) ==
    /\ call.op = "none"
    /\ ok \in StoreOutcomes(backend)
    /\ storage' = StoreEffect(storage, backend, id, data, ok)
    /\ pool' = LazyConnect(backend, pool)
    /\ call' = [Called("store", id) EXCEPT
                   !.data = data, !.raised = IF ok THEN "" ELSE "PostgresError"]
    /\ reply' = NoReply
    /\ UNCHANGED <<backend, boot, pc, handler, graded, caught, response,
                   invoked, writes, rq, pruned, tracking>>

\* await storage.fetch(grading_id)
FetchCall(id) ==
    /\ call.op = "none"
    /\ LET out == fetch(storage, backend, id)
       IN  call' = [Called("fetch", id) EXCEPT
                       !.raised = out.raised, !.value = out.value]
    /\ pool' = LazyConnect(backend, pool)
    /\ reply' = NoReply
    /\ UNCHANGED <<backend, boot, storage, pc, handler, graded, caught,
                   response, invoked, writes, rq, pruned, tracking>>

\* await storage.state(grading_id)
StateCall(id) ==
    /\ call.op = "none"
    /\ LET out == state(storage, backend, id)
       IN  call' = [Called("state", id) EXCEPT
                       !.raised = out.raised,
                       !.status = IF out.raised = "" THEN out.status ELSE ""]
    /\ pool' = LazyConnect(backend, pool)
    /\ reply' = NoReply
    /\ UNCHANGED <<backend, boot, storage, pc, handler, graded, caught,
                   response, invoked, writes, rq, pruned, tracking>>

\* await storage.valid(grading_id)
ValidCall(id) ==
    /\ call.op = "none"
    /\ LET out == valid(storage, backend, pool, id)
       IN  call' = [Called("valid", id) EXCEPT
                       !.raised = out.raised, !.exists = out.exists]
    /\ reply' = NoReply
    /\ UNCHANGED <<backend, pool, boot, storage, pc, handler, graded,
                   caught, response, invoked, writes, rq, pruned, tracking>>

\* await storage.prune(grading_id)
PruneCall(arg) ==
    /\ call.op = "none"
    /\ LET out == pruneCall(storage, backend, pool, arg)
       IN  /\ storage' = out.storage
           /\ pruned' = pruned \cup ((DOMAIN storage) \ (DOMAIN out.storage))
           /\ call' = [Called("prune", 0) EXCEPT
                          !.ids = arg.ids, !.raised = out.raised,
                          !.count = out.count]
    /\ reply' = NoReply
    /\ UNCHANGED <<backend, pool, boot, pc, handler, graded, caught,
                   response, invoked, writes, rq, tracking>>

\* The caller takes what the call returned or raised.
Return ==
    /\ call.op # "none"
    /\ call' = NoCall
    /\ reply' = NoReply
    /\ UNCHANGED <<backend, pool, boot, storage, pc, handler, graded,
                   caught, response, invoked, writes, rq, pruned, tracking>>

\* A storage object as its constructor leaves it (the database one with its
\* pool not opened yet) or as connect() leaves it, holding no record.
InitStorage ==
    /\ backend \in Backends
    /\ pool \in (IF backend = "Postgres" THEN {"none", "open"} ELSE {"none"})
    /\ boot = BootDone(backend = "Postgres", backend = "Postgres", backend = "Postgres")
    /\ storage = <<>>
    /\ pc = [id \in Ids |-> "unused"]
    /\ handler = [id \in Ids |-> ""]
    /\ graded = [id \in Ids |-> PyNone]
    /\ caught = [id \in Ids |-> ErrNone]
    /\ response = [id \in Ids |-> NoResponse]
    /\ invoked = [id \in Ids |-> 0]
    /\ writes = [id \in Ids |-> <<>>]
    /\ rq = Idle
    /\ reply = NoReply
    /\ pruned = {}
    /\ call = NoCall
    /\ tracking = [id \in Ids |-> NoTracking]

\* The storage interface under arbitrary callers, beside the two read handlers.
NextStorage ==
    \/ \E id \in Ids, data \in StoredData, ok \in BOOLEAN : StoreCall(id, data, ok)
    \/ \E id \in Ids : FetchCall(id)
    \/ \E id \in Ids : StateCall(id)
    \/ \E id \in Ids : ValidCall(id)
    \/ \E arg \in PruneArgs : PruneCall(arg)
    \/ Return
    \/ \E id \in Ids : StatusQuery(id)
    \/ \E id \in Ids : ResultQueryState(id)
    \/ ResultQueryFetch

SpecStorage == InitStorage /\ [][NextStorage]_vars
-----------------------------------------------------------------------------
\* prune as a function of the stored ids and its argument.
MaxPruneIds == 3
MaxPruneList == 3

\* The pool has been closed: self.pool still holds the closed Pool object.
PoolClosed(b, p) == b = "Postgres" /\ p = "closed"

\* Variant of close: self.pool.close() without the test of self.pool.
closeUnguarded(b, p) ==
    IF b = "InMem" THEN [raised |-> "", pool |-> p]
    ELSE IF p = "none" THEN [raised |-> "AttributeError", pool |-> p]
    ELSE [raised |-> "", pool |-> "closed"]

\* DeferredGradingStorage.close: pass in the in-memory variant; in the database
\* variant pool.close() when self.pool is set, which returns at once on a
\* pool that is closed already.
close(b, p) ==
    IF b = "InMem" THEN [raised |-> "", pool |-> p]
    ELSE IF p = "none" THEN [raised |-> "", pool |-> p]
    ELSE [raised |-> "", pool |-> "closed"]

\* await storage.close(), by shutdown or by any holder of the storage object;
\* the call keeps the pool it found in its status field.
CloseCall ==
    /\ call.op = "none"
    /\ LET out == close(backend, pool)
       IN  /\ pool' = out.pool
           /\ call' = [Called("close", 0) EXCEPT
                          !.raised = out.raised, !.status = pool]
    /\ reply' = NoReply
    /\ UNCHANGED <<backend, boot, storage, pc, handler, graded, caught,
                   response, invoked, writes, rq, pruned, tracking>>

\* A method that acquires a connection from the closed pool: the pool is set,
\* so nothing reconnects, and acquire() raises.
ClosedPoolCall(op, id) ==
    /\ call.op = "none"
    /\ PoolClosed(backend, pool)
    /\ op \in {"store", "fetch", "state", "valid"}
    /\ call' = [Called(op, id) EXCEPT !.raised = "InterfaceError"]
    /\ reply' = NoReply
    /\ UNCHANGED <<backend, pool, boot, storage, pc, handler, graded, caught,
                   response, invoked, writes, rq, pruned, tracking>>

\* The storage object under callers that store, read and close it.
NextClose ==
    \/ /\ ~PoolClosed(backend, pool)
       /\ \E id \in Ids, data \in StoredData, ok \in BOOLEAN : StoreCall(id, data, ok)
    \/ /\ ~PoolClosed(backend, pool)
       /\ \E id \in Ids : FetchCall(id)
    \/ /\ ~PoolClosed(backend, pool)
       /\ \E id \in Ids : ValidCall(id)
    \/ \E op \in {"store", "fetch", "state", "valid"}, id \in Ids : ClosedPoolCall(op, id)
    \/ CloseCall
    \/ Return

SpecClose == InitStorage /\ [][NextClose]_vars
PruneIds == 1..MaxPruneIds

\* One id as a str, or a list of ids with repetitions.
PruneBatches ==
    { [isStr |-> TRUE, ids |-> <<id>>] : id \in PruneIds }
    \cup { [isStr |-> FALSE, ids |-> ids] :
             ids \in UNION { [1..k -> PruneIds] : k \in 0..MaxPruneList } }

\* A storage holding the record of a submit for each id of stored.
Holding(b, stored) == [id \in stored |-> StoredForm(b, InitialRecord)]

\* An opened storage holding the records of some submitted jobs.
InitPruneFn ==
    /\ backend \in Backends
    /\ pool = OpenedAtStartup(backend)
    /\ boot = BootDone(backend = "Postgres", backend = "Postgres", backend = "Postgres")
    /\ \E stored \in SUBSET PruneIds : storage = Holding(backend, stored)
    /\ pc = [id \in Ids |-> "unused"]
    /\ handler = [id \in Ids |-> ""]
    /\ graded = [id \in Ids |-> PyNone]
    /\ caught = [id \in Ids |-> ErrNone]
    /\ response = [id \in Ids |-> NoResponse]
    /\ invoked = [id \in Ids |-> 0]
    /\ writes = [id \in Ids |-> <<>>]
    /\ rq = Idle
    /\ reply = NoReply
    /\ pruned = {}
    /\ call = NoCall
    /\ tracking = [id \in Ids |-> NoTracking]

NextPruneFn ==
    \/ \E arg \in PruneBatches : PruneCall(arg)
    \/ Return

SpecPruneFn == InitPruneFn /\ [][NextPruneFn]_vars
-----------------------------------------------------------------------------
\* app.startup

\* Variant of StartupExcept: the exception leaves startup.
StartupExceptRaises(envOk, poolOk) ==
    /\ backend' = backend
    /\ pool' = pool
    /\ boot' = [BootDone(envOk, poolOk, FALSE) EXCEPT !.raised = TRUE]

\* except Exception: the in-memory storage is installed instead.
StartupExcept(envOk, poolOk) ==
    /\ backend' = "InMem"
    /\ pool' = "none"
    /\ boot' = BootDone(envOk, poolOk, FALSE)

\* The five os.environ[...] reads: a missing one raises KeyError.
StartupEnv ==
    /\ boot.pc = "env"
    /\ IF EnvParams \subseteq boot.env
       THEN /\ boot' = [boot EXCEPT !.pc = "connect", !.envOk = TRUE]
            /\ UNCHANGED <<backend, pool>>
       ELSE StartupExcept(FALSE, FALSE)
    /\ UNCHANGED <<storage, pc, handler, graded, caught, response, invoked,
                   writes, rq, reply, pruned, call, tracking>>

\* connect(): self._connect() creates the pool, or raises.
StartupConnect(ok) ==
    /\ boot.pc = "connect"
    /\ IF ok
       THEN /\ boot' = [boot EXCEPT !.pc = "table", !.poolOk = TRUE]
            /\ pool' = "open"
            /\ backend' = backend
       ELSE StartupExcept(TRUE, FALSE)
    /\ UNCHANGED <<storage, pc, handler, graded, caught, response, invoked,
                   writes, rq, reply, pruned, call, tracking>>

\* connect(): CREATE TABLE IF NOT EXISTS, or it raises; then
\* app.state.storage is set.
StartupCreateTable(ok) ==
    /\ boot.pc = "table"
    /\ IF ok
       THEN /\ boot' = BootDone(TRUE, TRUE, TRUE)
            /\ backend' = "Postgres"
            /\ pool' = pool
       ELSE StartupExcept(TRUE, TRUE)
    /\ UNCHANGED <<storage, pc, handler, graded, caught, response, invoked,
                   writes, rq, reply, pruned, call, tracking>>

\* The process before startup has run, with any part of the connection
\* parameters in its environment.
InitBoot ==
    /\ backend = "unset"
    /\ pool = "none"
    /\ \E env \in SUBSET EnvParams : boot = BootStart(env)
    /\ storage = <<>>
    /\ pc = [id \in Ids |-> "unused"]
    /\ handler = [id \in Ids |-> ""]
    /\ graded = [id \in Ids |-> PyNone]
    /\ caught = [id \in Ids |-> ErrNone]
    /\ response = [id \in Ids |-> NoResponse]
    /\ invoked = [id \in Ids |-> 0]
    /\ writes = [id \in Ids |-> <<>>]
    /\ rq = Idle
    /\ reply = NoReply
    /\ pruned = {}
    /\ call = NoCall
    /\ tracking = [id \in Ids |-> NoTracking]

-----------------------------------------------------------------------------
\* grade_responses with a tracking context: mlflow_logging in a thread.

TrackingOutcomes == {"logged", "assessment_failed", "raised"}
SinkMessage == "mlflow unreachable"

\* mlflow_logging returns, having logged everything ("logged") or having
\* caught and logged a failure of log_assessment or set_tag ("partial"); or an
\* exception of set_experiment, start_run, search_traces or traces_to_df
\* leaves it and grade_responses, into the except clause of the job.
TrackingLogs(id, outcome) ==
    /\ pc[id] = "logging"
    /\ outcome \in TrackingOutcomes
    /\ IF outcome = "raised"
       THEN /\ tracking' = [tracking EXCEPT ![id].sink = "raised"]
            /\ pc' = [pc EXCEPT ![id] = "store_failed"]
            /\ caught' = [caught EXCEPT ![id] = SinkMessage]
            /\ graded' = [graded EXCEPT ![id] = PyNone]
       ELSE /\ tracking' = [tracking EXCEPT ![id].sink =
                               IF outcome = "logged" THEN "logged" ELSE "partial"]
            /\ pc' = [pc EXCEPT ![id] = "store_completed"]
            /\ UNCHANGED <<caught, graded>>
    /\ reply' = NoReply
    /\ UNCHANGED <<backend, pool, boot, call, storage, handler, response,
                   invoked, writes, rq, pruned>>

\* process_deferred_grading called by any holder of a storage and a grading
\* function, with a data dict that carries a tracking_context or not.
JobCall(id, tc) ==
    /\ boot.pc = "done"
    /\ id \in FreshIds
    /\ handler' = [handler EXCEPT ![id] = GoodSet]
    /\ tracking' = [tracking EXCEPT ![id].data =
                       {"submission"} \cup (IF tc THEN {"tracking_context"} ELSE {})]
    /\ pc' = [pc EXCEPT ![id] = "grading"]
    /\ invoked' = [invoked EXCEPT ![id] = @ + 1]
    /\ reply' = NoReply
    /\ UNCHANGED <<backend, pool, boot, call, storage, graded, caught,
                   response, writes, rq, pruned>>

\* The server after startup, with clients that send a tracking context with
\* their submission or do not.
InitTracking ==
    /\ backend \in Backends
    /\ pool = OpenedAtStartup(backend)
    /\ boot = BootDone(backend = "Postgres", backend = "Postgres", backend = "Postgres")
    /\ storage = <<>>
    /\ pc = [id \in Ids |-> "unused"]
    /\ handler = [id \in Ids |-> ""]
    /\ graded = [id \in Ids |-> PyNone]
    /\ caught = [id \in Ids |-> ErrNone]
    /\ response = [id \in Ids |-> NoResponse]
    /\ invoked = [id \in Ids |-> 0]
    /\ writes = [id \in Ids |-> <<>>]
    /\ rq = Idle
    /\ reply = NoReply
    /\ pruned = {}
    /\ call = NoCall
    /\ tracking \in [Ids -> { [NoTracking EXCEPT !.body = ClientBody(tc)] :
                                tc \in BOOLEAN }]
Next ==
    \/ \E id \in Ids, ss \in RegisteredSets : SubmitStore(id, ss)
    \/ \E id \in Ids, ss \in RegisteredSets : SubmitStoreRaises(id, ss)
    \/ \E id \in Ids : SubmitSchedule(id)
    \/ \E id \in Ids, ok \in BOOLEAN : SubmitScheduleRaises(id, ok)
    \/ \E id \in Ids : JobStart(id)
    \/ \E id \in Ids, r \in GraderResults : GraderReturns(id, r)
    \/ \E id \in Ids, m \in GraderMessages : GraderRaises(id, m)
    \/ \E id \in Ids : JobStoreCompleted(id)
    \/ \E id \in Ids : JobStoreCompletedRaises(id)
    \/ \E id \in Ids : JobStoreFailed(id)
    \/ \E id \in Ids : JobStoreFailedRaises(id)
    \/ \E id \in Ids : StatusQuery(id)
    \/ \E id \in Ids : ResultQueryState(id)
    \/ ResultQueryFetch

\* The server as its route handlers drive it.
Spec == Init /\ [][Next]_vars

\* Submissions and jobs beside a caller of storage.prune.
NextPrune ==
    \/ \E id \in Ids, ss \in RegisteredSets : SubmitStore(id, ss)
    \/ \E id \in Ids, ss \in RegisteredSets : SubmitStoreRaises(id, ss)
    \/ \E id \in Ids : SubmitSchedule(id)
    \/ \E id \in Ids, ok \in BOOLEAN : SubmitScheduleRaises(id, ok)
    \/ \E id \in Ids : JobStart(id)
    \/ \E id \in Ids, r \in GraderResults : GraderReturns(id, r)
    \/ \E id \in Ids, m \in GraderMessages : GraderRaises(id, m)
    \/ \E id \in Ids : JobStoreCompleted(id)
    \/ \E id \in Ids : JobStoreCompletedRaises(id)
    \/ \E id \in Ids : JobStoreFailed(id)
    \/ \E id \in Ids : JobStoreFailedRaises(id)
    \/ \E arg \in PruneArgs : Prune(arg)

SpecPrune == Init /\ [][NextPrune]_vars

\* The event loop runs a scheduled background task and resumes it after each
\* await: its start and its store calls are taken once they can be.
JobFair(id) ==
    /\ WF_vars(JobStart(id))
    /\ WF_vars(JobStoreCompleted(id) \/ JobStoreCompletedRaises(id))
    /\ WF_vars(JobStoreFailed(id) \/ JobStoreFailedRaises(id))

\* Submissions and the jobs they start.
NextJobs ==
    \/ \E id \in Ids, ss \in RegisteredSets : SubmitStore(id, ss)
    \/ \E id \in Ids, ss \in RegisteredSets : SubmitStoreRaises(id, ss)
    \/ \E id \in Ids : SubmitSchedule(id)
    \/ \E id \in Ids, ok \in BOOLEAN : SubmitScheduleRaises(id, ok)
    \/ \E id \in Ids : JobStart(id)
    \/ \E id \in Ids, r \in GraderResults : GraderReturns(id, r)
    \/ \E id \in Ids, m \in GraderMessages : GraderRaises(id, m)
    \/ \E id \in Ids : JobStoreCompleted(id)
    \/ \E id \in Ids : JobStoreCompletedRaises(id)
    \/ \E id \in Ids : JobStoreFailed(id)
    \/ \E id \in Ids : JobStoreFailedRaises(id)

\* Submissions and jobs under a fair event loop.
SpecFair == Init /\ [][NextJobs]_vars /\ \A id \in Ids : JobFair(id)

\* Startup, then submissions and their jobs.
NextStartup ==
    \/ StartupEnv
    \/ \E ok \in BOOLEAN : StartupConnect(ok)
    \/ \E ok \in BOOLEAN : StartupCreateTable(ok)
    \/ NextJobs

SpecStartup == InitBoot /\ [][NextStartup]_vars

\* Scenario set ids that are not keys of REGISTERED_SCENARIO_HANDLERS.
UnknownSets == {"no-such-set"}

\* Variant of SubmitUnknown: the registry test comes after the first try
\* block, so the PROCESSING record of a new grading id is written first.
SubmitUnknownStoresFirst(ss) ==
    /\ boot.pc = "done"
    /\ ss \in UnknownSets
    /\ \E id \in FreshIds :
          /\ storage' = StoreEffect(storage, backend, id, InitialRecord, TRUE)
          /\ writes' = [writes EXCEPT ![id] = Append(@, WriteCall(InitialRecord.status, "submit", TRUE))]
          /\ pc' = [pc EXCEPT ![id] = "done"]
    /\ reply' = Reply("submit", 0, HTTP_404_NOT_FOUND, "",
                      <<"no scenario set ", ss>>, PyNone)
    /\ UNCHANGED <<backend, pool, boot, call, handler, graded,
                   caught, response, invoked, rq, pruned, tracking>>

\* deferred_grading for a scenario_set_id that is not registered: the
\* HTTPException is raised by the first statement of the handler.
SubmitUnknown(ss) ==
    /\ boot.pc = "done"
    /\ ss \in UnknownSets
    /\ reply' = Reply("submit", 0, HTTP_404_NOT_FOUND, "",
                      <<"no scenario set ", ss>>, PyNone)
    /\ UNCHANGED <<backend, storage, pool, boot, call, pc, handler, graded,
                   caught, response, invoked, writes, rq, pruned, tracking>>
\* The grading id the polling client holds: the one its own submission was
\* given.
Polled == {1}

\* Submissions, for registered and for unknown scenario sets, and jobs beside a
\* client that polls the result handler for its submission and a caller of
\* storage.prune that removes that record.
NextResult ==
    \/ NextJobs
    \/ \E id \in Polled : Prune([isStr |-> FALSE, ids |-> <<id>>])
    \/ \E id \in Polled : ResultQueryState(id)
    \/ ResultQueryFetch
    \/ \E ss \in UnknownSets : SubmitUnknown(ss)

SpecResult == Init /\ [][NextResult]_vars
\* Submissions and jobs, jobs started with a data dict of the caller's own,
\* and the tracking sink.
NextTracking ==
    \/ NextJobs
    \/ \E id \in Ids, tc \in BOOLEAN : JobCall(id, tc)
    \/ \E id \in Ids, outcome \in TrackingOutcomes : TrackingLogs(id, outcome)

SpecTracking == InitTracking /\ [][NextTracking]_vars

----------------------------------------------------------------------------
\* Properties.

Terminal(st, id) == id \in DOMAIN st /\ st[id].status \in {COMPLETED, FAILED}
Processing(st, id) == id \in DOMAIN st /\ st[id].status = PROCESSING

\* Store calls for id that took effect with a terminal status.
TerminalWritesDone(w) ==
    { i \in 1..Len(w) : w[i].ok /\ w[i].status \in {COMPLETED, FAILED} }

\* C1: a stored status changes only from PROCESSING to COMPLETED or FAILED and
\* at most once; once a record is terminal it stays stored with that status,
\* and the status and result handlers answer for it as they did before, in
\* every step of every interleaving, store calls that raise included.
C1_TerminalMonotone ==
    [][\A id \in Ids :
        /\ (id \in DOMAIN storage /\ id \in DOMAIN storage'
              /\ storage'[id].status # storage[id].status)
           => (storage[id].status = PROCESSING
                 /\ storage'[id].status \in {COMPLETED, FAILED})
        /\ Terminal(storage, id)
           => /\ Terminal(storage', id)
              /\ storage'[id].status = storage[id].status
              /\ StatusAnswer(storage', backend', id) = StatusAnswer(storage, backend, id)
              /\ ResultAnswer(storage', backend', id) = ResultAnswer(storage, backend, id)
        /\ Cardinality(TerminalWritesDone(writes'[id])) <= 1
      ]_vars

\* A job whose COMPLETED store raised, whose record is FAILED, and a status
\* query that reported it.
C1_Witness ==
    \E id \in Ids :
        /\ Terminal(storage, id)
        /\ Len(writes[id]) = 3
        /\ reply = Reply("status", id, HTTP_200_OK, FAILED, <<>>, PyNone)

\* C2: once submit has answered with a grading id, a status query for that id
\* is never answered not-found as long as the id has not been pruned; the
\* PROCESSING record is stored before the job is scheduled and before the
\* answer, and when the answer is produced the stored status is PROCESSING and
\* no terminal store has been called.
C2_VisibleOnReturn ==
    [][\A id \in Ids :
        /\ (response[id] # Accepted /\ response'[id] = Accepted)
           => /\ writes'[id] = <<WriteCall(PROCESSING, "submit", TRUE)>>
              /\ id \notin pruned'
                 => /\ Processing(storage, id) /\ Processing(storage', id)
                    /\ StatusAnswer(storage', backend', id).status = PROCESSING
        /\ (response'[id] = Accepted /\ id \notin pruned')
           => StatusAnswer(storage', backend', id).code = HTTP_200_OK
        /\ pc'[id] \in {"scheduled", "grading", "store_completed", "store_failed",
                        "done", "crashed"}
           => /\ response'[id] = Accepted
              /\ writes'[id][1] = WriteCall(PROCESSING, "submit", TRUE)
      ]_vars

\* Submit has answered for an id that was not pruned, the other id has been
\* pruned and is answered not-found, and a status query for the first is
\* answered PROCESSING.
C2_Witness ==
    \E id, other \in Ids :
        /\ response[id] = Accepted
        /\ pc[id] = "scheduled"
        /\ id \notin pruned
        /\ other \in pruned
        /\ StatusAnswer(storage, backend, other) = NotFound("status", other)
        /\ StatusAnswer(storage, backend, id)
           = Reply("status", id, HTTP_200_OK, PROCESSING, <<>>, PyNone)

\* The job of id caught an exception of the grading function (not of storage).
GraderRaised(id) == caught[id] \in GraderMessages

\* Store calls of the job of id that raised.
JobWritesRaised(w) == { i \in 1..Len(w) : w[i].by = "job" /\ ~w[i].ok }

\* C3: a result query for a FAILED record is answered with the failure (500)
\* whose detail carries the description of the grading function's exception,
\* on either storage backend.
C3_FailedDetailSurfaced ==
    \A id \in Ids :
        (pc[id] = "done" /\ Terminal(storage, id) /\ storage[id].status = FAILED
           /\ GraderRaised(id))
        => LET a == ResultAnswer(storage, backend, id)
           IN  /\ a.code = HTTP_500_INTERNAL_SERVER_ERROR
               /\ a.detail = <<"grading failed: ", caught[id]>>

StoredResultIsNull(b, row) ==
    IF b = "InMem" THEN row.result.isNone ELSE row.result.result.json = "null"
StoredResultIsEmpty(b, row) ==
    IF b = "InMem" THEN row.result.isNone \/ Len(row.result.items) = 0
    ELSE row.result.result.json = "null" \/ Len(row.result.result.items) = 0

\* C5: every stored record has: PROCESSING, no result and no error; COMPLETED,
\* a non-null result and no error; FAILED, an empty result and a non-empty
\* error description.
C5_RecordShape ==
    \A id \in DOMAIN storage :
        LET row == storage[id]
        IN  /\ row.status = PROCESSING
               => (StoredResultIsNull(backend, row) /\ row.error = ErrNone)
            /\ row.status = COMPLETED
               => (~StoredResultIsNull(backend, row) /\ row.error = ErrNone)
            /\ row.status = FAILED
               => (StoredResultIsEmpty(backend, row) /\ row.error # ErrNone
                     /\ row.error # "")

\* C6 as stated: the store calls for one id are one PROCESSING write by
\* submit, then at most one terminal write by the job, made only after the
\* PROCESSING write succeeded; there is no third call.
C6_TwoWritesOnly ==
    \A id \in Ids :
        LET w == writes[id]
        IN  /\ Len(w) <= 2
            /\ Len(w) >= 1 => w[1] = WriteCall(PROCESSING, "submit", w[1].ok)
            /\ Len(w) = 2
               => (w[1].ok /\ w[2].by = "job" /\ w[2].status \in {COMPLETED, FAILED})

\* C6 (amended): the store calls for one id are one PROCESSING write by
\* submit and then, only after that write succeeded, either one FAILED write
\* by the submit handler (scheduling raised, there is no job), or the job's
\* calls: one COMPLETED or FAILED call, and after a COMPLETED call that raised
\* one FAILED call. At most three calls are made and at most one terminal
\* write takes effect.
C6_WritesOrdered ==
    \A id \in Ids :
        LET w == writes[id]
        IN  /\ Len(w) <= 3
            /\ Len(w) >= 1 => w[1] = WriteCall(PROCESSING, "submit", w[1].ok)
            /\ Len(w) >= 2
               => /\ w[1].ok
                  /\ \/ w[2].by = "submit" /\ w[2].status = FAILED /\ Len(w) = 2
                     \/ w[2].by = "job" /\ w[2].status = FAILED /\ Len(w) = 2
                     \/ w[2].by = "job" /\ w[2].status = COMPLETED
                          /\ (Len(w) = 3
                                => (~w[2].ok /\ w[3].by = "job" /\ w[3].status = FAILED))
            /\ Cardinality(TerminalWritesDone(w)) <= 1

\* Three store calls for one id: PROCESSING, a COMPLETED call that raised, FAILED.
C6_Witness ==
    \E id \in Ids :
        /\ Len(writes[id]) = 3
        /\ ~writes[id][2].ok
        /\ writes[id][3] = WriteCall(FAILED, "job", TRUE)

\* C7: a result query for a record that is PROCESSING is answered not-ready
\* (202): no score list, not 404, not 500; on either backend.
C7_NotReady ==
    \A id \in Ids :
        Processing(storage, id)
        => LET a == ResultAnswer(storage, backend, id)
           IN  /\ a.code = HTTP_202_ACCEPTED
               /\ a.code \notin {HTTP_200_OK, HTTP_404_NOT_FOUND,
                                 HTTP_500_INTERNAL_SERVER_ERROR}
               /\ a.result = PyNone
               /\ a # NotFound("result", id)

\* On the database backend, a record is PROCESSING and the result handler has
\* just answered 202 for it.
C7_Witness ==
    \E id \in Ids :
        /\ backend = "Postgres"
        /\ Processing(storage, id)
        /\ pc[id] = "grading"
        /\ reply.op = "result" /\ reply.id = id /\ reply.code = HTTP_202_ACCEPTED

\* C8: a result query for a COMPLETED record returns exactly the list the
\* grading function returned for that job, the empty list included, on either
\* backend.
C8_ResultExact ==
    \A id \in Ids :
        (pc[id] = "done" /\ Terminal(storage, id) /\ storage[id].status = COMPLETED)
        => LET a == ResultAnswer(storage, backend, id)
           IN  a.code = HTTP_200_OK /\ a.result = graded[id]

\* The record of the last store call for id that took effect, as the caller
\* passed it.
Written(id) ==
    LET w == writes[id]
        last == w[Len(w)]
    IN  IF ~last.ok THEN InitialRecord
        ELSE IF last.status = PROCESSING THEN InitialRecord
        ELSE IF last.status = COMPLETED
        THEN DeferredGradingResult(graded[id], COMPLETED, ErrNone)
        ELSE IF last.by = "job"
        THEN DeferredGradingResult(PyList(<<>>), FAILED, caught[id])
        ELSE DeferredGradingResult(PyNone, FAILED, HandlerMessage)

\* C9: after store(id, r), fetch(id) returns a record equal to r and
\* state(id) returns r's status, for every record the job runner writes, and
\* the two backends answer alike.
C9_StoreFetchRoundTrip ==
    \A id \in DOMAIN storage :
        LET r == Written(id)
            f == fetch(storage, backend, id)
        IN  /\ f.raised = ""
            /\ f.value = r
            /\ state(storage, backend, id) = [raised |-> "", status |-> r.status]
            /\ fetch(Put(<<>>, id, StoredForm("Postgres", r)), "Postgres", id)
               = fetch(Put(<<>>, id, StoredForm("InMem", r)), "InMem", id)

\* C10: when the initial PROCESSING store raises, submit answers 500, no job
\* is scheduled for the id and the grading function is not called for it.
C10_InitialWriteFailureRejects ==
    \A id \in Ids :
        (Len(writes[id]) >= 1 /\ ~writes[id][1].ok)
        => /\ response[id].code = HTTP_500_INTERNAL_SERVER_ERROR
           /\ pc[id] = "rejected"
           /\ invoked[id] = 0
           /\ Len(writes[id]) = 1
           /\ id \notin DOMAIN storage

\* A submit whose first store raised, beside a later submit that went through
\* and whose job ran.
C10_Witness ==
    \E id, other \in Ids :
        /\ pc[id] = "rejected"
        /\ response[id].code = HTTP_500_INTERNAL_SERVER_ERROR
        /\ pc[other] = "done"

-----------------------------------------------------------------------------
\* The background task of id has returned or let an exception escape.
JobEnded(id) == pc[id] \in {"done", "crashed"}

\* The record process_deferred_grading's except clause writes for id.
FailedRecordOf(id) ==
    StoredForm(backend, DeferredGradingResult(PyList(<<>>), FAILED, caught[id]))

\* The submitter of a job that has started already holds the id with PROCESSING.
SubmitterUntouched(id) ==
    /\ invoked[id] <= 1
    /\ (invoked[id] = 1 => response[id] = Accepted)

\* C11 as stated: whenever the grading function of a job raised and the job
\* has ended, the record is FAILED with an empty result and the exception's
\* description as error; the function was invoked at most once and the
\* submitter kept its PROCESSING answer.
C11_RaisedEndsFailed ==
    \A id \in Ids :
        /\ SubmitterUntouched(id)
        /\ (GraderRaised(id) /\ JobEnded(id)) =>
               (id \in DOMAIN storage /\ storage[id] = FailedRecordOf(id))

\* C11: an exception of the grading function is caught by the job: when the
\* FAILED store succeeds the record is FAILED with an empty result and the
\* exception's description as error; when that store raises too the record
\* stays as the submit wrote it (PROCESSING).  The grading function is invoked
\* at most once per id and the submitter keeps its PROCESSING answer.
C11_RaisedEndsFailedIfStored ==
    \A id \in Ids :
        /\ SubmitterUntouched(id)
        /\ (GraderRaised(id) /\ pc[id] = "done") =>
               (id \in DOMAIN storage /\ storage[id] = FailedRecordOf(id))
        /\ (GraderRaised(id) /\ pc[id] = "crashed") =>
               (id \in DOMAIN storage
                /\ storage[id] = StoredForm(backend, InitialRecord))

C11_Witness ==
    \E id \in Ids :
        /\ GraderRaised(id) /\ pc[id] = "done" /\ invoked[id] = 1
        /\ caught[id] = "bad input"
        /\ storage[id] = FailedRecordOf(id)
        /\ response[id] = Accepted

-----------------------------------------------------------------------------
\* The grading function of id does not run forever.
GraderEnds(id) == []<>(pc[id] # "grading")

\* C12: under a fair event loop, a job that was accepted, whose grading
\* function returns or raises and none of whose store calls raises, gets a
\* record with a terminal status; from then on the record stays terminal and
\* the result handler never answers not-ready (202) for it.
C12_EventuallyTerminal ==
    \A id \in Ids :
        /\ GraderEnds(id) =>
               ((response[id] = Accepted)
                    ~> (Terminal(storage, id) \/ JobWritesRaised(writes[id]) # {}))
        /\ [](Terminal(storage, id) =>
                 [](/\ Terminal(storage, id)
                    /\ ResultAnswer(storage, backend, id).code # HTTP_202_ACCEPTED))

C12_Witness ==
    \E id \in Ids :
        /\ response[id] = Accepted /\ pc[id] = "done"
        /\ JobWritesRaised(writes[id]) = {}
        /\ Terminal(storage, id)
        /\ ResultAnswer(storage, backend, id).code = HTTP_200_OK

-----------------------------------------------------------------------------
\* The step is an answer of the status or the result handler.
QueryAnswered(r) == r.op \in {"status", "result"}

\* C13: a status query or result query for a grading id without a stored
\* record (never stored, or pruned, also between the result handler's two
\* reads) is answered 404, never 202 or 500, and a query leaves the storage as
\* it was; on both storage variants.
C13_AbsentIs404 ==
    [][/\ \A id \in Ids :
              id \notin DOMAIN storage =>
                  /\ StatusAnswer(storage, backend, id).code = HTTP_404_NOT_FOUND
                  /\ ResultAnswer(storage, backend, id).code = HTTP_404_NOT_FOUND
       /\ QueryAnswered(reply') =>
              /\ storage' = storage
              /\ (reply'.id \notin DOMAIN storage =>
                      reply'.code = HTTP_404_NOT_FOUND)
       /\ (rq'.pc = "fetch" /\ rq.pc = "idle") => storage' = storage]_vars

C13_Witness ==
    /\ QueryAnswered(reply)
    /\ reply.id \in pruned
    /\ reply.id \notin DOMAIN storage
    /\ reply.code = HTTP_404_NOT_FOUND
    /\ \E id \in DOMAIN storage : TRUE

-----------------------------------------------------------------------------
\* The job of id is inside its grading function, which has not returned.
InGrader(id) == pc[id] = "grading" /\ Processing(storage, id)

\* Every request and every other job can take its next step.
OthersCanStep(a) ==
    /\ \A id \in FreshIds : ENABLED SubmitStore(id, GoodSet)
    /\ \A b \in Ids \ {a} :
           /\ (pc[b] = "stored" /\ handler[b] = GoodSet) => ENABLED SubmitSchedule(b)
           /\ pc[b] = "scheduled" => ENABLED JobStart(b)
           /\ pc[b] = "grading" =>
                  \A r \in GraderResults : ENABLED GraderReturns(b, r)
           /\ pc[b] = "store_completed" => ENABLED JobStoreCompleted(b)
           /\ pc[b] = "store_failed" => ENABLED JobStoreFailed(b)
    /\ \A id \in Ids :
           /\ ENABLED StatusQuery(id)
           /\ (ENABLED ResultQueryState(id)) \/ (ENABLED ResultQueryFetch)

\* C14: while a job is inside its grading function (slow, or never
\* returning) and its record is PROCESSING, nothing else waits for it: a
\* further submit can store and schedule under a fresh id, status and result
\* queries are answered, and every other job can take its next step.
C14_NoBlocking ==
    \A a \in Ids : InGrader(a) => OthersCanStep(a)

\* A job submitted later is terminal and has been queried while the earlier
\* one is still inside its grading function.
C14_Witness ==
    \E a, b \in Ids :
        /\ a < b
        /\ InGrader(a)
        /\ pc[b] = "done" /\ Terminal(storage, b)
        /\ reply.op = "status" /\ reply.id = a /\ reply.status = PROCESSING

-----------------------------------------------------------------------------
SetOf(ids) == { ids[i] : i \in 1..Len(ids) }

\* C15: prune removes exactly the supplied ids that have a record and returns
\* their number: a single str counts as one id, absent and repeated ids add
\* nothing and nothing is raised, an empty batch returns 0, pruning the same
\* ids again returns 0, and both storage variants return the same count.
C15_PruneCount ==
    [][(call'.op = "prune" /\ call.op = "none") =>
          LET ids == call'.ids
              removed == SetOf(ids) \cap DOMAIN storage
              again == [isStr |-> FALSE, ids |-> ids]
          IN  /\ call'.raised = ""
              /\ call'.count = Cardinality(removed)
              /\ (ids = <<>> => call'.count = 0)
              /\ DOMAIN storage' = (DOMAIN storage) \ removed
              /\ \A id \in DOMAIN storage' : storage'[id] = storage[id]
              /\ pruneCall(storage', backend, pool, again).count = 0
              /\ prune(Holding("InMem", DOMAIN storage), "InMem", again).count
                     = prune(Holding("Postgres", DOMAIN storage), "Postgres", again).count
      ]_vars

\* A batch of three different ids of which one has no record returned 2.
C15_Witness ==
    /\ call.op = "prune" /\ call.count = 2
    /\ Len(call.ids) = 3 /\ Cardinality(SetOf(call.ids)) = 3
    /\ Cardinality(SetOf(call.ids) \cap pruned) = 2

-----------------------------------------------------------------------------
\* The record of id, or its absence, is the same before and after the step.
SameRecord(id) ==
    /\ (id \in DOMAIN storage) <=> (id \in DOMAIN storage')
    /\ id \in DOMAIN storage => storage'[id] = storage[id]

\* The step is a direct storage call of one of ops.
Calls(ops) == call.op = "none" /\ call'.op \in ops

\* C16: every mutation is keyed by id: a store for an id (the write of a
\* submit or of a job) and a prune of some ids leave the record of every other
\* id as it was; the reads (state, fetch, valid, the status handler and both
\* reads of the result handler) leave every record as it was.
C16_KeyedById ==
    [][/\ Calls({"store"}) => \A id \in Ids \ {call'.id} : SameRecord(id)
       /\ Calls({"prune"}) => \A id \in Ids \ SetOf(call'.ids) : SameRecord(id)
       /\ Calls({"fetch", "state", "valid"}) => storage' = storage
       /\ (QueryAnswered(reply') \/ rq' # rq) => storage' = storage]_vars

\* An overwrite of one record took effect beside another id's terminal record.
C16_Witness ==
    /\ call.op = "store" /\ call.raised = ""
    /\ call.data.status = FAILED
    /\ storage[call.id] = StoredForm(backend, call.data)
    /\ \E other \in (DOMAIN storage) \ {call.id} :
           storage[other].status = COMPLETED

-----------------------------------------------------------------------------
\* C17: startup ends with a storage installed and without raising: the
\* database storage exactly when every connection parameter is present and
\* pool creation and table creation succeeded, the in-memory storage on any
\* failure; until it has ended startup can always take its next step and no
\* storage is installed.
C17_StartupInstalls ==
    [][/\ boot.pc # "done" =>
              /\ backend = "unset"
              /\ (ENABLED StartupEnv) \/ (ENABLED StartupConnect(TRUE))
                     \/ (ENABLED StartupCreateTable(TRUE))
       /\ (boot.pc # "done" /\ boot'.pc = "done") =>
              /\ ~boot'.raised
              /\ backend' \in Backends
              /\ pool' = OpenedAtStartup(backend')
              /\ backend' = "Postgres" <=>
                     (boot.env = EnvParams /\ boot'.poolOk /\ boot'.tableOk)
       /\ boot.pc = "done" => (backend' = backend /\ backend \in Backends)]_vars

\* Table creation failed after the pool was created: the in-memory storage
\* serves a submission.
C17_Witness ==
    /\ boot.pc = "done" /\ boot.envOk /\ boot.poolOk /\ ~boot.tableOk
    /\ backend = "InMem"
    /\ \E id \in Ids : response[id] = Accepted

-----------------------------------------------------------------------------
\* C18: on the database storage every method opens the pool on first access:
\* after any call the pool is open and the call did not fail for want of a
\* pool; valid in particular returned a boolean.  (A prune of an empty batch
\* returns 0 without touching the pool.)
C18_PoolOpenedOnFirstAccess ==
    (backend = "Postgres" /\ call.op # "none"
         /\ ~(call.op = "prune" /\ call.ids = <<>>)) =>
        /\ pool = "open"
        /\ call.raised # "AttributeError"
        /\ call.op = "valid" => call.raised = ""

-----------------------------------------------------------------------------
\* The store calls of submit's first try block among the calls w.
InitialWrites(w) ==
    { i \in 1..Len(w) : w[i].by = "submit" /\ w[i].status = PROCESSING }

\* C19: every submit works under a grading id of its own: the id it stores
\* under was never issued before (no record, no earlier store call, not
\* pruned, no response), the step leaves every other job and record as they
\* were, and no id ever sees a second initial write.
C19_FreshIdPerSubmit ==
    [][\A id \in Ids :
          /\ Cardinality(InitialWrites(writes'[id])) <= 1
          /\ InitialWrites(writes'[id]) # InitialWrites(writes[id]) =>
                 /\ writes[id] = <<>>
                 /\ pc[id] = "unused"
                 /\ id \notin DOMAIN storage
                 /\ id \notin pruned
                 /\ response[id] = NoResponse
                 /\ \A other \in Ids \ {id} :
                        SameRecord(other) /\ pc'[other] = pc[other]
      ]_vars

\* Two submissions are inside the handler at once, each with its own record.
C19_Witness ==
    \E a, b \in Ids :
        /\ a # b
        /\ pc[a] = "stored" /\ pc[b] = "stored"
        /\ a \in DOMAIN storage /\ b \in DOMAIN storage
        /\ InitialWrites(writes[a]) # {} /\ InitialWrites(writes[b]) # {}

-----------------------------------------------------------------------------
\* What a store call leaves behind: nothing when it raised, else a record
\* for its id, and no other record changes, whether or not the id had one.
StoreStep ==
    /\ backend = "InMem" => call'.raised = ""
    /\ call'.raised # "" => storage' = storage
    /\ call'.raised = "" => call'.id \in DOMAIN storage'
    /\ \A id \in Ids \ {call'.id} : SameRecord(id)

\* The record read back with fetch is the data of the call.
FetchedIsData ==
    fetch(storage', backend, call'.id) = [raised |-> "", value |-> call'.data]
\* The stored row is the data of the call in the backend's encoding.
PackedIsData == storage'[call'.id] = StoredForm(backend, call'.data)

\* C20: store creates or replaces: under any interleaving of store calls
\* (and prunes and reads) a store that returns leaves exactly one record for
\* its id, which read back equals the data of that call, the last one to take
\* effect, on a first write and on an overwrite alike; the in-memory store
\* never raises and a raising database store changes nothing.
C20_LastStoreWins ==
    [][Calls({"store"}) =>
          (StoreStep /\ (call'.raised = "" => FetchedIsData))]_vars

\* The same up to the encoding of the result column.
StoreUpsertsPacked ==
    [][Calls({"store"}) =>
          (StoreStep /\ (call'.raised = "" => PackedIsData))]_vars

-----------------------------------------------------------------------------
\* C21: an id that prune has removed never has a record again: valid answers
\* false for it and a further prune of it removes nothing, whatever the job
\* of that id does afterwards.
C21_PrunedStaysGone ==
    \A id \in pruned :
        /\ id \notin DOMAIN storage
        /\ ~valid(storage, backend, pool, id).exists
        /\ prune(storage, backend, [isStr |-> TRUE, ids |-> <<id>>]).count = 0

-----------------------------------------------------------------------------
\* mlflow_logging was called for the job of id and did not log everything.
SinkFailed(id) == tracking[id].sink \in {"raised", "partial"}

\* C22: when the grading function returned and recording the result to the
\* tracking sink failed, the job (none of whose store calls raised) leaves the
\* record COMPLETED with the computed result, not FAILED.
C22_SinkFailureStillCompleted ==
    \A id \in Ids :
        (SinkFailed(id) /\ pc[id] = "done" /\ JobWritesRaised(writes[id]) = {}) =>
            /\ id \in DOMAIN storage
            /\ storage[id].status = COMPLETED
            /\ graded[id] # PyNone =>
                   storage[id] = StoredForm(backend,
                       DeferredGradingResult(graded[id], COMPLETED, ErrNone))

-----------------------------------------------------------------------------
\* The request of id carried a tracking_context.
SentTracking(id) == "tracking_context" \in tracking[id].body

\* C24: for a job the submit handler accepted, a tracking_context in the
\* request body is in the data handed to grade_responses, and the record is
\* COMPLETED only after the results were logged to the tracking sink; for a
\* body without one the sink is never called.
C24_TrackingReachesGrader ==
    \A id \in Ids :
        response[id] = Accepted =>
            /\ (SentTracking(id) /\ invoked[id] >= 1) =>
                   "tracking_context" \in tracking[id].data
            /\ (SentTracking(id) /\ id \in DOMAIN storage
                    /\ storage[id].status = COMPLETED) =>
                   tracking[id].sink = "logged"
            /\ ~SentTracking(id) => tracking[id].sink = "idle"

-----------------------------------------------------------------------------
\* No store call made for id has raised.
WritesSucceeded(id) == \A i \in 1..Len(writes[id]) : writes[id][i].ok

\* The submit handler of id is between its two try blocks, or the background
\* job of id is scheduled or running.
HasOwner(id) ==
    pc[id] \in {"stored", "scheduled", "grading", "logging",
                "store_completed", "store_failed"}

\* C23: with the store calls succeeding, every PROCESSING record belongs to
\* a submit handler still at work or to a background job that is scheduled
\* or running; when scheduling fails after the PROCESSING write the handler
\* has rewritten the record as FAILED and answered with an error.
C23_ProcessingHasOwner ==
    \A id \in Ids :
        WritesSucceeded(id) =>
            /\ Processing(storage, id) => HasOwner(id)
            /\ pc[id] = "sched_failed" =>
                   /\ id \in DOMAIN storage /\ storage[id].status = FAILED
                   /\ response[id].code = HTTP_500_INTERNAL_SERVER_ERROR

\* Scheduling failed for one submission and its record is FAILED, while the
\* PROCESSING record of another is owned by its running job.
C23_Witness ==
    \E a, b \in Ids :
        /\ WritesSucceeded(a) /\ pc[a] = "sched_failed"
        /\ storage[a].status = FAILED
        /\ WritesSucceeded(b) /\ Processing(storage, b) /\ pc[b] = "grading"

-----------------------------------------------------------------------------
\* The step is the second read of the result handler.
FetchStep == rq.pc = "fetch" /\ rq'.pc = "idle"

\* C25: whatever the jobs and prune did between the result handler's two
\* reads, the handler answers with a score list (200) only from a record that
\* is COMPLETED when it is fetched, and for a record that was pruned in
\* between it answers 404, not 200, 202 or 500.
C25_TwoReads ==
    [][FetchStep =>
          /\ reply'.op = "result" /\ reply'.id = rq.id
          /\ reply'.code = HTTP_200_OK =>
                 /\ rq.id \in DOMAIN storage
                 /\ storage[rq.id].status = COMPLETED
                 /\ storage' = storage
          /\ rq.id \notin DOMAIN storage => reply'.code = HTTP_404_NOT_FOUND
          /\ reply'.code # HTTP_202_ACCEPTED]_vars

\* The record the handler found terminal has been pruned before its fetch.
C25_Witness ==
    /\ rq.pc = "fetch"
    /\ rq.id \in pruned
    /\ rq.id \notin DOMAIN storage
    /\ rq.status = COMPLETED

-----------------------------------------------------------------------------
\* The step is a submit that was answered 404.
SubmitRejected == reply'.op = "submit" /\ reply'.code = HTTP_404_NOT_FOUND

\* C26: a submit for a scenario_set_id outside the registry is answered 404
\* and does nothing else: no grading id is taken, no record is stored and no
\* job is scheduled; and every submission that did take a grading id named a
\* registered scenario set.
C26_UnknownSetRejected ==
    [][/\ SubmitRejected =>
             /\ reply'.detail[2] \in UnknownSets
             /\ UNCHANGED <<storage, pc, handler, writes, invoked, response>>
       /\ \A id \in Ids : pc'[id] # "unused" => handler'[id] \in RegisteredSets
       /\ \A ss \in UnknownSets : ENABLED SubmitUnknown(ss)]_vars

\* An unknown scenario set is rejected while a grading id is still free and
\* an earlier submission is stored.
C26_Witness ==
    /\ reply.op = "submit"
    /\ reply.code = HTTP_404_NOT_FOUND
    /\ FreshIds # {}
    /\ DOMAIN storage # {}

-----------------------------------------------------------------------------
\* The step is a call of close.
CloseStep == call.op = "none" /\ call'.op = "close"

\* C27: close raises nothing in any state of either backend - never opened,
\* open, or closed already - and leaves the stored records as they are; a
\* second close changes nothing that the first one left.
C27_CloseIdempotent ==
    [][CloseStep =>
          /\ call'.raised = ""
          /\ storage' = storage
          /\ pool' = (IF backend = "Postgres" /\ pool = "open" THEN "closed" ELSE pool)
          /\ close(backend, pool') = [raised |-> "", pool |-> pool']]_vars

\* The database storage holds a record and is closed a second time.
C27_Witness ==
    /\ backend = "Postgres"
    /\ call.op = "close"
    /\ call.status = "closed"
    /\ call.raised = ""
    /\ DOMAIN storage # {}

====
